---------------------------- MODULE Spec2Model ----------------------------
(***************************************************************************)
(* Model of the data-transformation routines of the drought dashboard      *)
(* (src/utils.py) and of the places of src/app.py that call them.          *)
(*                                                                         *)
(* The routines are pure functions, so the state of the model is the call  *)
(* in progress: its name, its arguments and what it returned.  The initial *)
(* states draw the arguments of a routine from a bounded set and the       *)
(* routine's action applies it.                                            *)
(*                                                                         *)
(* SPEI values are integers in units of 0.5 (v = 3 stands for 1.5), so     *)
(* every threshold of the code (-2, -1.5, -1, -0.5, 0.5, 1.5) is an exact  *)
(* integer and the values next to it lie on either side.                   *)
(***************************************************************************)
EXTENDS Integers, Sequences, FiniteSets

VARIABLES call, args, ret, pc

vars == <<call, args, ret, pc>>

(***************************************************************************)
(* Bounds of the model.                                                    *)
(***************************************************************************)
\* Values range over -MaxDry..MaxWet (units of 0.5: -3.0 .. 2.0).
MaxDry == 6
MaxWet == 4
\* Longest sequence of sampled values handed to the majority vote.
MaxSample == 4
\* Grid coordinates are the even numbers 0, 2, .. 2 * MaxLatIdx (latitudes)
\* and 0, 2, .. 2 * MaxLonIdx (longitudes); region bounds are all integers from
\* -1 to one above the largest coordinate, so a bound may lie on a grid
\* coordinate, between two, or outside the grid.
MaxLatIdx == 2
MaxLonIdx == 1
\* Grids handed to the sampler and the flattener have up to MaxRows latitudes
\* and MaxCols longitudes and at most MaxMissing missing cells; the sampling
\* window size ranges over 1..MaxWindow.
MaxRows == 3
MaxCols == 2
MaxMissing == 1
MaxWindow == 3
\* Time is counted in ticks, TicksPerDay to the day; timestamps and targets
\* range over 0..MaxTick and a time axis has up to MaxTimes timestamps.
TicksPerDay == 4
MaxTick == 8
MaxTimes == 3
\* Arrays handed to calculate_category_count have up to MaxCells cells.
MaxCells == 3
\* A continent lists MaxCountries countries or states.
MaxCountries == 2

\* The missing value (np.nan): an integer outside every range of values.  No
\* comparison holds of it (Lt, Le), as for an IEEE NaN.
NaN == -1000

isnan(v) == v = NaN

Lt(a, b) == ~isnan(a) /\ ~isnan(b) /\ a < b

Le(a, b) == ~isnan(a) /\ ~isnan(b) /\ a <= b

Values == (0 - MaxDry)..MaxWet

\* The category indices of SPEI_CATEGORIES: 0 (Extreme) .. 6 (Very Wet).
Categories == 0..(7 - 1)

(***************************************************************************)
(* The thresholds of categorize_spei, in units of 0.5.                     *)
(***************************************************************************)
ExtremeBelow == -4
SevereBelow == -3
ModerateBelow == -2
MildBelow == -1
NormalUpTo == 1
WetUpTo == 3

(***************************************************************************)
(* categorize_spei: the if/elif chain of the source, in its order.         *)
(***************************************************************************)
\* The chain with 0.5 left out of Normal (< for <=).
categorize_spei_normal_open(spei_val) ==
    IF isnan(spei_val) THEN 4
    ELSE IF Lt(spei_val, ExtremeBelow) THEN 0
    ELSE IF Lt(spei_val, SevereBelow) THEN 1
    ELSE IF Lt(spei_val, ModerateBelow) THEN 2
    ELSE IF Lt(spei_val, MildBelow) THEN 3
    ELSE IF Lt(spei_val, NormalUpTo) THEN 4
    ELSE IF Le(spei_val, WetUpTo) THEN 5
    ELSE 6

\* The chain without its np.isnan test.
categorize_spei_no_nan_test(spei_val) ==
    IF Lt(spei_val, ExtremeBelow) THEN 0
    ELSE IF Lt(spei_val, SevereBelow) THEN 1
    ELSE IF Lt(spei_val, ModerateBelow) THEN 2
    ELSE IF Lt(spei_val, MildBelow) THEN 3
    ELSE IF Le(spei_val, NormalUpTo) THEN 4
    ELSE IF Le(spei_val, WetUpTo) THEN 5
    ELSE 6

\* The chain with the results of its last two branches exchanged.
categorize_spei_wet_swapped(spei_val) ==
    IF isnan(spei_val) THEN 4
    ELSE IF Lt(spei_val, ExtremeBelow) THEN 0
    ELSE IF Lt(spei_val, SevereBelow) THEN 1
    ELSE IF Lt(spei_val, ModerateBelow) THEN 2
    ELSE IF Lt(spei_val, MildBelow) THEN 3
    ELSE IF Le(spei_val, NormalUpTo) THEN 4
    ELSE IF Le(spei_val, WetUpTo) THEN 6
    ELSE 5

categorize_spei(spei_val) ==
    IF isnan(spei_val) THEN 4
    ELSE IF Lt(spei_val, ExtremeBelow) THEN 0
    ELSE IF Lt(spei_val, SevereBelow) THEN 1
    ELSE IF Lt(spei_val, ModerateBelow) THEN 2
    ELSE IF Lt(spei_val, MildBelow) THEN 3
    ELSE IF Le(spei_val, NormalUpTo) THEN 4
    ELSE IF Le(spei_val, WetUpTo) THEN 5
    ELSE 6

(***************************************************************************)
(* np.bincount(categorized, minlength=7): how often each category occurs.  *)
(***************************************************************************)
bincount(categorized) ==
    [k \in Categories |->
        Cardinality({i \in DOMAIN categorized : categorized[i] = k})]

(***************************************************************************)
(* np.argmax over the 7 counts: a scan from index 0 that replaces the best *)
(* index only by a strictly larger count, so the first maximum is kept.    *)
(***************************************************************************)
RECURSIVE ArgmaxScan(_, _, _)
ArgmaxScan(counts, k, best) ==
    IF k > 6 THEN best
    ELSE ArgmaxScan(counts, k + 1, IF counts[k] > counts[best] THEN k ELSE best)

RECURSIVE ArgmaxScanLast(_, _, _)
ArgmaxScanLast(counts, k, best) ==
    IF k > 6 THEN best
    ELSE ArgmaxScanLast(counts, k + 1,
                        IF counts[k] >= counts[best] THEN k ELSE best)

argmax_last(counts) == ArgmaxScanLast(counts, 1, 0)

argmax(counts) == ArgmaxScan(counts, 1, 0)

(***************************************************************************)
(* The dominant-category branch of render_continental_view: classify every *)
(* sampled value, count the categories, take the most frequent one.        *)
(***************************************************************************)
DominantCategory(valid_values) ==
    LET categorized == [i \in DOMAIN valid_values |->
                            categorize_spei(valid_values[i])]
        category_counts == bincount(categorized)
    IN  [categorized |-> categorized,
         category_counts |-> category_counts,
         dominant_category |-> argmax(category_counts)]

\* Non-empty sequences of non-missing values, as get_region_spei_values
\* returns them when the branch is taken (len(valid_values) > 0).
SampleSeqs == UNION {[1..n -> Values] : n \in 1..MaxSample}

(***************************************************************************)
(* Coordinate axes: the strictly monotone sequences, ascending or          *)
(* descending, over a set of coordinates.                                  *)
(***************************************************************************)
LatCoords == {2 * k : k \in 0..MaxLatIdx}

LonCoords == {2 * k : k \in 0..MaxLonIdx}

SetMin(S) == CHOOSE x \in S : \A y \in S : x <= y

RECURSIVE Ascending(_)
Ascending(S) ==
    IF S = {} THEN <<>> ELSE <<SetMin(S)>> \o Ascending(S \ {SetMin(S)})

Reverse(s) == [i \in 1..Len(s) |-> s[Len(s) + 1 - i]]

Axes(coords) ==
    {Ascending(S) : S \in SUBSET coords \ {{}}}
        \cup {Reverse(Ascending(S)) : S \in SUBSET coords \ {{}}}

\* Region bounds [min, max] with min <= max (the caller's contract).
BoundRange(coords) == -1..(2 * Cardinality(coords) - 1)

Bounds(coords) ==
    {b \in BoundRange(coords) \X BoundRange(coords) : b[1] <= b[2]}

(***************************************************************************)
(* create_region_slices: the direction of each axis is read off its first  *)
(* and last coordinate; slice(min, max) for an ascending axis and          *)
(* slice(max, min) otherwise.  region[1] is region[0] of the source.       *)
(***************************************************************************)
slice(start, stop) == [start |-> start, stop |-> stop]

\* The slice of one axis without the test of its direction.
axis_slice_always_min_max(axis, bound) == slice(bound[1], bound[2])

axis_slice(axis, bound) ==
    LET ascending == axis[1] < axis[Len(axis)]
    IN  IF ascending THEN slice(bound[1], bound[2])
        ELSE slice(bound[2], bound[1])

create_region_slices(ds, region) ==
    [lat_slice |-> axis_slice(ds.lat, region.lat),
     lon_slice |-> axis_slice(ds.lon, region.lon)]

(***************************************************************************)
(* DataArray.sel with a slice of labels, as app.py applies the slices: the *)
(* index locates the two bounds by binary search (pandas                   *)
(* Index.slice_indexer).  An index that is monotonic increasing, as every  *)
(* index of one element is, is searched as ascending: the selection starts *)
(* after the coordinates below slice.start and ends with the last          *)
(* coordinate not above slice.stop.  A decreasing index is searched the    *)
(* other way round.  The result is the sub-sequence of selected            *)
(* coordinates, empty when the start lies behind the end.                  *)
(***************************************************************************)
is_monotonic_increasing(axis) ==
    \A i \in 1..(Len(axis) - 1) : axis[i] <= axis[i + 1]

slice_locs(axis, slc) ==
    IF is_monotonic_increasing(axis)
    THEN [start |-> Cardinality({i \in DOMAIN axis : axis[i] < slc.start}),
          stop |-> Cardinality({i \in DOMAIN axis : axis[i] <= slc.stop})]
    ELSE [start |-> Cardinality({i \in DOMAIN axis : axis[i] > slc.start}),
          stop |-> Cardinality({i \in DOMAIN axis : axis[i] >= slc.stop})]

sel(axis, slc) ==
    LET locs == slice_locs(axis, slc)
    IN  IF locs.start >= locs.stop THEN <<>>
        ELSE SubSeq(axis, locs.start + 1, locs.stop)

\* The region extraction of app.py: slices, then the selection on each axis.
spei_region(ds, region) ==
    LET slices == create_region_slices(ds, region)
    IN  [lat_slice |-> slices.lat_slice,
         lon_slice |-> slices.lon_slice,
         lat |-> sel(ds.lat, slices.lat_slice),
         lon |-> sel(ds.lon, slices.lon_slice)]

(***************************************************************************)
(* Grids: a latitude axis, a longitude axis and a matrix of values, rows   *)
(* by latitude and columns by longitude.  The cell in row i and column j   *)
(* holds a value of its own, or NaN when it is missing.                    *)
(***************************************************************************)
GridAxis(n, ascending) ==
    LET up == [i \in 1..n |-> 2 * (i - 1)]
    IN  IF ascending THEN up ELSE Reverse(up)

CellValue(i, j, m) == (i - 1) * m + j

GridValues(n, m, missing) ==
    [i \in 1..n |-> [j \in 1..m |->
        IF <<i, j>> \in missing THEN NaN ELSE CellValue(i, j, m)]]

Grids ==
    {[lat |-> GridAxis(n, latUp), lon |-> GridAxis(m, lonUp),
      values |-> GridValues(n, m, missing)] :
        <<n, m, latUp, lonUp, missing>> \in
            {t \in (0..MaxRows) \X (0..MaxCols) \X BOOLEAN \X BOOLEAN
                    \X SUBSET ((1..MaxRows) \X (1..MaxCols)) :
                /\ t[5] \subseteq (1..t[1]) \X (1..t[2])
                /\ Cardinality(t[5]) <= MaxMissing}}

\* ndarray.flatten(): the rows of a matrix one after the other.
RECURSIVE flatten(_)
flatten(matrix) ==
    IF Len(matrix) = 0 THEN <<>>
    ELSE Head(matrix) \o flatten(Tail(matrix))

\* array[mask]: the elements at the positions where the mask is true.
RECURSIVE mask_select(_, _)
mask_select(array, mask) ==
    IF Len(array) = 0 THEN <<>>
    ELSE (IF Head(mask) THEN <<Head(array)>> ELSE <<>>)
            \o mask_select(Tail(array), Tail(mask))

Max2(a, b) == IF a >= b THEN a ELSE b

Min2(a, b) == IF a <= b THEN a ELSE b

Abs(x) == IF x < 0 THEN 0 - x ELSE x

(***************************************************************************)
(* get_region_spei_values.  Indices are those of the source, from 0.       *)
(***************************************************************************)
\* A coordinate that is no number (a null or a string in the centroid file).
NotANumber == NaN - 1

\* np.argmin: the first index (from 0) of the smallest element, found by a
\* scan that replaces the best index only by a strictly smaller element.
RECURSIVE ArgminScan(_, _, _)
ArgminScan(array, k, best) ==
    IF k > Len(array) THEN best - 1
    ELSE ArgminScan(array, k + 1, IF array[k] < array[best] THEN k ELSE best)

argmin(array) == ArgminScan(array, 2, 1)

\* The nearest index with the last of equally near coordinates.
nearest_index_last(axis, x) ==
    Len(axis) - 1 - argmin(Reverse([k \in DOMAIN axis |-> Abs(axis[k] - x)]))

\* np.abs(axis - x).argmin()
nearest_index(axis, x) == argmin([k \in DOMAIN axis |-> Abs(axis[k] - x)])

NoSample == [exc |-> "none", region_values |-> <<>>, valid_values |-> <<>>]

\* The body of the try: the exception it raises, or its values.  Subtracting
\* a coordinate that is no number raises TypeError, argmin of an empty axis
\* raises ValueError.
sample_body(spei_data, lat, lon, grid_size) ==
    IF lat = NotANumber THEN [NoSample EXCEPT !.exc = "TypeError"]
    ELSE IF Len(spei_data.lat) = 0 THEN [NoSample EXCEPT !.exc = "ValueError"]
    ELSE IF lon = NotANumber THEN [NoSample EXCEPT !.exc = "TypeError"]
    ELSE IF Len(spei_data.lon) = 0 THEN [NoSample EXCEPT !.exc = "ValueError"]
    ELSE
        LET lat_idx == nearest_index(spei_data.lat, lat)
            lon_idx == nearest_index(spei_data.lon, lon)
            half_size == grid_size \div 2
            lat_start == Max2(0, lat_idx - half_size)
            lat_end == Min2(Len(spei_data.lat), lat_idx + half_size + 1)
            lon_start == Max2(0, lon_idx - half_size)
            lon_end == Min2(Len(spei_data.lon), lon_idx + half_size + 1)
            region_values ==
                [i \in 1..(lat_end - lat_start) |->
                    [j \in 1..(lon_end - lon_start) |->
                        spei_data.values[lat_start + i][lon_start + j]]]
            flat == flatten(region_values)
        IN  [exc |-> "none",
             region_values |-> region_values,
             valid_values |->
                mask_select(flat, [k \in DOMAIN flat |-> ~isnan(flat[k])])]

\* The routine with an except clause that lets the exception through.
get_region_spei_values_reraising(spei_data, lat, lon, grid_size) ==
    LET body == sample_body(spei_data, lat, lon, grid_size)
    IN  [raised |-> body.exc,
         region_values |-> body.region_values,
         value |-> body.valid_values]

\* try: the body; except: an empty array.  raised is what reaches the caller.
get_region_spei_values(spei_data, lat, lon, grid_size) ==
    LET body == sample_body(spei_data, lat, lon, grid_size)
    IN  IF body.exc # "none"
        THEN [raised |-> "none", region_values |-> <<>>, value |-> <<>>]
        ELSE [raised |-> "none",
              region_values |-> body.region_values,
              value |-> body.valid_values]

(***************************************************************************)
(* prepare_mapbox_data.                                                    *)
(***************************************************************************)
\* np.meshgrid(x, y) with indexing='ij': Len(x) rows, X constant along a row.
meshgrid_ij(x, y) ==
    [X |-> [i \in 1..Len(x) |-> [j \in 1..Len(y) |-> x[i]]],
     Y |-> [i \in 1..Len(x) |-> [j \in 1..Len(y) |-> y[j]]]]

\* np.meshgrid(x, y): Len(y) rows and Len(x) columns, X[i][j] = x[j] and
\* Y[i][j] = y[i].
meshgrid(x, y) ==
    [X |-> [i \in 1..Len(y) |-> [j \in 1..Len(x) |-> x[j]]],
     Y |-> [i \in 1..Len(y) |-> [j \in 1..Len(x) |-> y[i]]]]

prepare_mapbox_data(spei_region_data) ==
    LET grid == meshgrid(spei_region_data.lon, spei_region_data.lat)
        lons_flat == flatten(grid.X)
        lats_flat == flatten(grid.Y)
        spei_flat == flatten(spei_region_data.values)
        mask == [k \in DOMAIN spei_flat |-> ~isnan(spei_flat[k])]
    IN  [lats |-> mask_select(lats_flat, mask),
         lons |-> mask_select(lons_flat, mask),
         spei |-> mask_select(spei_flat, mask)]

(***************************************************************************)
(* find_nearest_time_index.  (tv - target_date).days is the whole number   *)
(* of days of the difference, rounded down: -1 for a timestamp six hours   *)
(* before the target.                                                      *)
(***************************************************************************)
days(delta) == delta \div TicksPerDay

find_nearest_time_index(time_values, target_date) ==
    LET time_diffs == [k \in DOMAIN time_values |->
                            Abs(days(time_values[k] - target_date))]
    IN  argmin(time_diffs)

\* Time axes: strictly increasing, non-empty.
TimeAxes ==
    {Ascending(S) : S \in {T \in SUBSET (0..MaxTick) :
                                T # {} /\ Cardinality(T) <= MaxTimes}}

(***************************************************************************)
(* calculate_category_count: the seven threshold tests, each false of NaN, *)
(* and np.sum of the test over the cells of the array.                     *)
(***************************************************************************)
\* The tests with the test of Normal open at 0.5 (v < 0.5).
thresholds_normal_open(category_idx, v) ==
    CASE category_idx = 0 -> Lt(v, ExtremeBelow)
      [] category_idx = 1 -> Le(ExtremeBelow, v) /\ Lt(v, SevereBelow)
      [] category_idx = 2 -> Le(SevereBelow, v) /\ Lt(v, ModerateBelow)
      [] category_idx = 3 -> Le(ModerateBelow, v) /\ Lt(v, MildBelow)
      [] category_idx = 4 -> Le(MildBelow, v) /\ Lt(v, NormalUpTo)
      [] category_idx = 5 -> Lt(NormalUpTo, v) /\ Le(v, WetUpTo)
      [] category_idx = 6 -> Lt(WetUpTo, v)

thresholds(category_idx, v) ==
    CASE category_idx = 0 -> Lt(v, ExtremeBelow)
      [] category_idx = 1 -> Le(ExtremeBelow, v) /\ Lt(v, SevereBelow)
      [] category_idx = 2 -> Le(SevereBelow, v) /\ Lt(v, ModerateBelow)
      [] category_idx = 3 -> Le(ModerateBelow, v) /\ Lt(v, MildBelow)
      [] category_idx = 4 -> Le(MildBelow, v) /\ Le(v, NormalUpTo)
      [] category_idx = 5 -> Lt(NormalUpTo, v) /\ Le(v, WetUpTo)
      [] category_idx = 6 -> Lt(WetUpTo, v)

calculate_category_count(spei_values, category_idx) ==
    Cardinality({i \in DOMAIN spei_values :
                    thresholds(category_idx, spei_values[i])})

\* The percentage columns of render_continental_view: total_points is the
\* number of non-missing cells, cat_count the count of each category.
category_columns(spei_values) ==
    [total_points |->
        Len(mask_select(spei_values,
                        [k \in DOMAIN spei_values |-> ~isnan(spei_values[k])])),
     cat_count |-> [idx \in Categories |->
                        calculate_category_count(spei_values, idx)]]

\* The cells of a region, row after row, missing or not.
CellArrays == UNION {[1..n -> Values \cup {NaN}] : n \in 1..MaxCells}

(***************************************************************************)
(* render_continental_view: the category of every country of a continent.  *)
(***************************************************************************)
\* grid_size = 50 if continent_name == "Australia" else 5
StateGridSize == 50
CountryGridSize == 5

RECURSIVE Sum(_)
Sum(array) == IF Len(array) = 0 THEN 0 ELSE Head(array) + Sum(Tail(array))

\* categorize_spei of the mean total / n of n > 0 non-missing values: the
\* chain of categorize_spei, each comparison multiplied by n.
categorize_mean(total, n) ==
    IF total < ExtremeBelow * n THEN 0
    ELSE IF total < SevereBelow * n THEN 1
    ELSE IF total < ModerateBelow * n THEN 2
    ELSE IF total < MildBelow * n THEN 3
    ELSE IF total <= NormalUpTo * n THEN 4
    ELSE IF total <= WetUpTo * n THEN 5
    ELSE 6

\* The non-missing cells of the region: spei_cont.values[~np.isnan(...)].
valid_cells(spei_cont) ==
    LET cells == flatten(spei_cont.values)
    IN  mask_select(cells, [k \in DOMAIN cells |-> ~isnan(cells[k])])

\* A fallback that takes the missing-value default of categorize_spei.
fallback_category_normal(spei_cont) == 4

\* categorize_spei(np.nanmean(spei_cont.values))
fallback_category(spei_cont) ==
    categorize_mean(Sum(valid_cells(spei_cont)), Len(valid_cells(spei_cont)))

\* A dictionary that is not emptied: the lists on display are appended to.
kept_categories(shown) == shown

\* country_categories = {i: [] for i in range(7)}, whatever was shown before.
new_categories(shown) == [i \in Categories |-> <<>>]

\* No centroid on record for a country.
NoCentroid == <<>>

\* One round of the loop over the countries: the branch taken, the category,
\* and an exception of the sampling that was not caught.
categorize_country(continent_name, country, country_centroids, spei_cont) ==
    IF country_centroids[country] # NoCentroid
    THEN
        LET lat == country_centroids[country][1]
            lon == country_centroids[country][2]
            grid_size == IF continent_name = "Australia"
                         THEN StateGridSize ELSE CountryGridSize
            sample == get_region_spei_values(spei_cont, lat, lon, grid_size)
            valid_values == sample.value
        IN  IF sample.raised # "none"
            THEN [country |-> country, branch |-> "raised", category |-> 4,
                  raised |-> sample.raised]
            ELSE IF Len(valid_values) > 0
            THEN IF continent_name = "Australia"
                 THEN [country |-> country, branch |-> "average",
                       category |-> categorize_mean(Sum(valid_values),
                                                    Len(valid_values)),
                       raised |-> "none"]
                 ELSE [country |-> country, branch |-> "dominant",
                       category |->
                            DominantCategory(valid_values).dominant_category,
                       raised |-> "none"]
            ELSE [country |-> country, branch |-> "no valid data",
                  category |-> fallback_category(spei_cont),
                  raised |-> "none"]
    ELSE [country |-> country, branch |-> "no centroid",
          category |-> fallback_category(spei_cont), raised |-> "none"]

\* country_categories[category].append(country), country after country.
RECURSIVE append_countries(_, _, _)
append_countries(country_categories, assigned, k) ==
    IF k > Len(assigned) THEN country_categories
    ELSE append_countries(
            [country_categories EXCEPT ![assigned[k].category] =
                Append(@, assigned[k].country)],
            assigned, k + 1)

\* The pass: a warning when the region has no non-missing cell, else the
\* category tally.  shown is the tally on display when the pass starts.
render_continental_view(continent_name, continent_data, country_centroids, spei_cont, shown) ==
    IF Len(valid_cells(spei_cont)) > 0
    THEN
        LET countries == continent_data.countries
            assigned == [k \in DOMAIN countries |->
                            categorize_country(continent_name, countries[k],
                                               country_centroids, spei_cont)]
            failed == {k \in DOMAIN assigned : assigned[k].raised # "none"}
        IN  [warning |-> FALSE,
             raised |-> IF failed = {} THEN "none"
                        ELSE assigned[CHOOSE k \in failed :
                                        \A l \in failed : k <= l].raised,
             assigned |-> assigned,
             country_categories |->
                append_countries(new_categories(shown), assigned, 1)]
    ELSE [warning |-> TRUE, raised |-> "none", assigned |-> <<>>,
          country_categories |-> [i \in Categories |-> <<>>]]

(***************************************************************************)
(* The queries of the model: two continents with their own countries, a    *)
(* region of one row that is one cell longer than a country's sampling     *)
(* window reaches from its edge, cells that are missing, driest or         *)
(* wettest, and for every country no centroid, one at either end of the    *)
(* row, or one whose longitude is no number.                               *)
(***************************************************************************)
Continents == {"Australia", "Africa"}

CountriesOf(continent_name) ==
    IF continent_name = "Australia"
    THEN [k \in 1..MaxCountries |-> k]
    ELSE [k \in 1..MaxCountries |-> MaxCountries + k]

RegionCols == CountryGridSize \div 2 + 2

RegionGrids ==
    {[lat |-> GridAxis(1, TRUE), lon |-> GridAxis(RegionCols, TRUE),
      values |-> <<row>>] :
        row \in [1..RegionCols -> {NaN, 0 - MaxDry, MaxWet}]}

Centroids ==
    {NoCentroid, <<0, 0>>, <<0, 2 * (RegionCols - 1)>>, <<0, NotANumber>>}

Queries ==
    UNION {
        {[continent_name |-> c,
          continent_data |-> [countries |-> CountriesOf(c)],
          country_centroids |-> cc,
          spei_cont |-> g] :
            cc \in [{CountriesOf(c)[k] : k \in 1..MaxCountries} -> Centroids],
            g \in RegionGrids} :
        c \in Continents}

(***************************************************************************)
(* The colours: SPEI_CATEGORIES (label and colour of the categories 0..6,  *)
(* here at 1..7), the legend of the map, and spei_to_color, whose chain    *)
(* has thresholds at -2, -1.5, -1, -0.5, 0.5, 1 and 1.5 (units of 0.5:     *)
(* -4, -3, -2, -1, 1, 2, 3), all of them strict.                           *)
(***************************************************************************)
SPEI_CATEGORIES ==
    <<[label |-> "Extreme", color |-> "#8B0000"],
      [label |-> "Severe", color |-> "#FF4500"],
      [label |-> "Moderate", color |-> "#FFA500"],
      [label |-> "Mild", color |-> "#FFD700"],
      [label |-> "Normal", color |-> "#90EE90"],
      [label |-> "Wet", color |-> "#00FF00"],
      [label |-> "Very Wet", color |-> "#0000FF"]>>

legend_data ==
    <<[label |-> "Extreme Drought", color |-> "#8B0000"],
      [label |-> "Severe Drought", color |-> "#FF4500"],
      [label |-> "Moderate Drought", color |-> "#FFA500"],
      [label |-> "Mild Drought", color |-> "#FFD700"],
      [label |-> "Normal", color |-> "#90EE90"],
      [label |-> "Wet", color |-> "#00FF00"],
      [label |-> "Very Wet", color |-> "#0000FF"]>>

spei_to_color(spei_val) ==
    IF Lt(spei_val, -4) THEN "#8B0000"
    ELSE IF Lt(spei_val, -3) THEN "#FF4500"
    ELSE IF Lt(spei_val, -2) THEN "#FFA500"
    ELSE IF Lt(spei_val, -1) THEN "#FFD700"
    ELSE IF Lt(spei_val, 1) THEN "#90EE90"
    ELSE IF Lt(spei_val, 2) THEN "#00FF00"
    ELSE IF Lt(spei_val, 3) THEN "#00CED1"
    ELSE "#0000FF"

(***************************************************************************)
(* State machine.  A behaviour is one call: the initial state holds the    *)
(* routine called and its arguments (pc = "called"), the routine's action  *)
(* computes what it returns (pc = "returned").                             *)
(***************************************************************************)
NoResult == [none |-> TRUE]

Called(name, a) ==
    /\ call = name
    /\ args = a
    /\ ret = NoResult
    /\ pc = "called"

Returned(name) == call = name /\ pc = "returned"

(***************************************************************************)
(* The classifier and the majority vote.                                   *)
(***************************************************************************)
InitClassify ==
    \/ \E v \in Values \cup {NaN} :
            Called("categorize_spei", [spei_val |-> v])
    \/ \E vs \in SampleSeqs :
            Called("dominant_category", [valid_values |-> vs])
    \/ \E v \in Values \cup {NaN} :
            Called("spei_to_color", [spei_val |-> v])

\* One call categorize_spei(spei_val), the value missing or not.
Categorize ==
    /\ call = "categorize_spei"
    /\ pc = "called"
    /\ ret' = [category |-> categorize_spei(args.spei_val)]
    /\ pc' = "returned"
    /\ UNCHANGED <<call, args>>

\* One pass of the dominant-category branch over a country's sample.
Vote ==
    /\ call = "dominant_category"
    /\ pc = "called"
    /\ ret' = DominantCategory(args.valid_values)
    /\ pc' = "returned"
    /\ UNCHANGED <<call, args>>

\* The colour of one map point, as create_mapbox_figure asks for it.
Colorize ==
    /\ call = "spei_to_color"
    /\ pc = "called"
    /\ ret' = [color |-> spei_to_color(args.spei_val)]
    /\ pc' = "returned"
    /\ UNCHANGED <<call, args>>

NextClassify == Categorize \/ Vote \/ Colorize

SpecClassify == InitClassify /\ [][NextClassify]_vars

(***************************************************************************)
(* The region selector.                                                    *)
(***************************************************************************)
InitRegion ==
    \E lat \in Axes(LatCoords), lon \in Axes(LonCoords),
       blat \in Bounds(LatCoords), blon \in Bounds(LonCoords) :
        Called("spei_region", [ds |-> [lat |-> lat, lon |-> lon],
                               region |-> [lat |-> blat, lon |-> blon]])

\* Lines 224-226 of app.py: the slices, then the selection by label.
SelectRegion ==
    /\ call = "spei_region"
    /\ pc = "called"
    /\ ret' = spei_region(args.ds, args.region)
    /\ pc' = "returned"
    /\ UNCHANGED <<call, args>>

NextRegion == SelectRegion

SpecRegion == InitRegion /\ [][NextRegion]_vars

(***************************************************************************)
(* The neighbourhood sampler and the point-cloud flattener.                *)
(***************************************************************************)
\* Centre points: on a grid coordinate, between two, outside the grid, or no
\* number at all.
CentreLats == (-1..(2 * MaxRows - 1)) \cup {NotANumber}

CentreLons == (-1..(2 * MaxCols - 1)) \cup {NotANumber}

InitGrid ==
    \/ \E g \in Grids, lat \in CentreLats, lon \in CentreLons,
          size \in 1..MaxWindow :
            Called("get_region_spei_values",
                   [spei_data |-> g, lat |-> lat, lon |-> lon,
                    grid_size |-> size])
    \/ \E g \in Grids :
            Called("prepare_mapbox_data", [spei_region_data |-> g])

Sample ==
    /\ call = "get_region_spei_values"
    /\ pc = "called"
    /\ ret' = get_region_spei_values(args.spei_data, args.lat, args.lon,
                                     args.grid_size)
    /\ pc' = "returned"
    /\ UNCHANGED <<call, args>>

Flatten ==
    /\ call = "prepare_mapbox_data"
    /\ pc = "called"
    /\ ret' = prepare_mapbox_data(args.spei_region_data)
    /\ pc' = "returned"
    /\ UNCHANGED <<call, args>>

NextGrid == Sample \/ Flatten

SpecGrid == InitGrid /\ [][NextGrid]_vars

(***************************************************************************)
(* The temporal locator.                                                   *)
(***************************************************************************)
InitTime ==
    \E tvs \in TimeAxes, target \in 0..MaxTick :
        Called("find_nearest_time_index",
               [time_values |-> tvs, target_date |-> target])

FindTime ==
    /\ call = "find_nearest_time_index"
    /\ pc = "called"
    /\ ret' = [index |-> find_nearest_time_index(args.time_values,
                                                 args.target_date)]
    /\ pc' = "returned"
    /\ UNCHANGED <<call, args>>

NextTime == FindTime

SpecTime == InitTime /\ [][NextTime]_vars

(***************************************************************************)
(* The category counts of a region.                                        *)
(***************************************************************************)
InitCount ==
    \E cells \in CellArrays :
        Called("category_columns", [spei_values |-> cells])

CountCategories ==
    /\ call = "category_columns"
    /\ pc = "called"
    /\ ret' = category_columns(args.spei_values)
    /\ pc' = "returned"
    /\ UNCHANGED <<call, args>>

NextCount == CountCategories

SpecCount == InitCount /\ [][NextCount]_vars

(***************************************************************************)
(* The dashboard's continental view, query after query.  Every change of   *)
(* date or region starts one pass of render_continental_view; the tally of *)
(* the last pass stays on display (ret) until the next pass has run.       *)
(***************************************************************************)
NoQuery == [none |-> TRUE]

InitRender ==
    /\ call = "render_continental_view"
    /\ args = NoQuery
    /\ ret = [country_categories |-> [i \in Categories |-> <<>>]]
    /\ pc = "idle"

\* The user changes the date or the region.
StartQuery ==
    /\ call = "render_continental_view"
    /\ pc = "idle"
    /\ \E q \in Queries :
        args' = [query |-> q, shown |-> ret.country_categories]
    /\ pc' = "called"
    /\ UNCHANGED <<call, ret>>

Render ==
    /\ call = "render_continental_view"
    /\ pc = "called"
    /\ ret' = render_continental_view(args.query.continent_name,
                                      args.query.continent_data,
                                      args.query.country_centroids,
                                      args.query.spei_cont, args.shown)
    /\ pc' = "returned"
    /\ UNCHANGED <<call, args>>

\* The pass is over: its tally stays on display.
FinishQuery ==
    /\ call = "render_continental_view"
    /\ pc = "returned"
    /\ args' = NoQuery
    /\ ret' = [country_categories |-> ret.country_categories]
    /\ pc' = "idle"
    /\ UNCHANGED call

NextRender == StartQuery \/ Render \/ FinishQuery

SpecRender == InitRender /\ [][NextRender]_vars

(***************************************************************************)
(* Claims about the classifier and the vote (SpecClassify).                *)
(***************************************************************************)
\* The threshold table of the specification, in units of 0.5, every row with
\* both of its ends.
TableCategory(v) ==
    CASE v < -4 -> 0
      [] -4 <= v /\ v < -3 -> 1
      [] -3 <= v /\ v < -2 -> 2
      [] -2 <= v /\ v < -1 -> 3
      [] -1 <= v /\ v <= 1 -> 4
      [] 1 < v /\ v <= 3 -> 5
      [] v > 3 -> 6

\* C1: for every non-missing value, categorize_spei returns the category of
\* the threshold table; -2.0 gives 1, -0.5 and 0.5 give 4, 1.5 gives 5, and
\* the next values above 0.5 and 1.5 give 5 and 6.
C1_TableExact ==
    (Returned("categorize_spei") /\ ~isnan(args.spei_val)) =>
        /\ ret.category = TableCategory(args.spei_val)
        /\ args.spei_val = -4 => ret.category = 1
        /\ args.spei_val = -1 => ret.category = 4
        /\ args.spei_val = 1 => ret.category = 4
        /\ args.spei_val = 2 => ret.category = 5
        /\ args.spei_val = 3 => ret.category = 5
        /\ args.spei_val = 4 => ret.category = 6

C1_Witness ==
    Returned("categorize_spei") /\ args.spei_val = 1 /\ ret.category = 4

\* C2: over non-missing values the classification is weakly increasing (the
\* values of one sample, classified one by one: a smaller value never gets a
\* larger category) and every result is one of 0..6.
C2_Monotone ==
    /\ Returned("categorize_spei") => ret.category \in Categories
    /\ Returned("dominant_category") =>
            \A i, j \in DOMAIN args.valid_values :
                /\ ret.categorized[i] \in Categories
                /\ args.valid_values[i] <= args.valid_values[j] =>
                        ret.categorized[i] <= ret.categorized[j]

C2_Witness ==
    /\ Returned("dominant_category")
    /\ \E i, j \in DOMAIN args.valid_values :
            /\ args.valid_values[i] < args.valid_values[j]
            /\ ret.categorized[i] = 5
            /\ ret.categorized[j] = 6

\* C3: a missing value is classified 4 (Normal), returned as a value.
C3_MissingIsNormal ==
    (Returned("categorize_spei") /\ isnan(args.spei_val)) => ret.category = 4

C3_Witness ==
    Returned("categorize_spei") /\ isnan(args.spei_val) /\ ret.category = 4

\* How many values of the sample fall into category k.
VoteCount(vs, k) ==
    Cardinality({i \in DOMAIN vs : categorize_spei(vs[i]) = k})

\* C8: the dominant category of a non-empty sample has the largest count of
\* individually classified values, and every lower category index has a
\* strictly smaller count (ties go to the lowest index); [-3,-3,0,0] gives 0
\* and [-3,-3,0,0,0] gives 4.
C8_VoteLowestIndexWins ==
    Returned("dominant_category") =>
        LET vs == args.valid_values
            d == ret.dominant_category
        IN  /\ d \in Categories
            /\ \A k \in Categories : VoteCount(vs, k) <= VoteCount(vs, d)
            /\ \A k \in Categories : k < d => VoteCount(vs, k) < VoteCount(vs, d)
            /\ vs = <<-6, -6, 0, 0>> => d = 0
            /\ vs = <<-6, -6, 0, 0, 0>> => d = 4

C8_Witness ==
    /\ Returned("dominant_category")
    /\ ret.category_counts[0] = 2
    /\ ret.category_counts[4] = 2
    /\ ret.dominant_category = 0

(***************************************************************************)
(* Claims about the region selector (SpecRegion).                          *)
(***************************************************************************)
Range(s) == {s[i] : i \in DOMAIN s}

\* The coordinates the slices of create_region_slices select on an axis.
SelectedOn(axis, bound) == Range(sel(axis, axis_slice(axis, bound)))

\* C4: stored ascending or descending, the same coordinates with the same
\* bound [a, b] give the same selected set; the slice is (a, b) when the first
\* coordinate is below the last and (b, a) when it is above.
C4_DirectionInvariant ==
    Returned("spei_region") =>
        /\ Range(ret.lat) = SelectedOn(Reverse(args.ds.lat), args.region.lat)
        /\ Range(ret.lon) = SelectedOn(Reverse(args.ds.lon), args.region.lon)
        /\ args.ds.lat[1] < args.ds.lat[Len(args.ds.lat)] =>
                ret.lat_slice = slice(args.region.lat[1], args.region.lat[2])
        /\ args.ds.lat[1] > args.ds.lat[Len(args.ds.lat)] =>
                ret.lat_slice = slice(args.region.lat[2], args.region.lat[1])

C4_Witness ==
    /\ Returned("spei_region")
    /\ args.ds.lat = <<0, 2, 4>>
    /\ args.region.lat = <<1, 4>>
    /\ ret.lat = <<2, 4>>
    /\ SelectedOn(<<4, 2, 0>>, args.region.lat) = {2, 4}

\* The coordinates of an axis inside [min, max].
Within(axis, bound) ==
    {c \in Range(axis) : bound[1] <= c /\ c <= bound[2]}

\* C5: on every monotone axis, a single cell included, the slice selects
\* exactly the cells whose coordinate lies in [min, max].
C5_SelectsExactlyWithin ==
    Returned("spei_region") =>
        /\ Range(ret.lat) = Within(args.ds.lat, args.region.lat)
        /\ Range(ret.lon) = Within(args.ds.lon, args.region.lon)

\* The same on the axes of two cells or more.
C5_SelectsWithinFromTwoCells ==
    Returned("spei_region") =>
        /\ Len(args.ds.lat) >= 2 =>
                Range(ret.lat) = Within(args.ds.lat, args.region.lat)
        /\ Len(args.ds.lon) >= 2 =>
                Range(ret.lon) = Within(args.ds.lon, args.region.lon)

(***************************************************************************)
(* Claims about the sampler and the flattener (SpecGrid).                  *)
(***************************************************************************)
\* C6: the window extracted before NaN filtering never holds more than
\* window_size^2 cells, for odd and for even window sizes.
C6_WindowAtMostSizeSquared ==
    Returned("get_region_spei_values") =>
        Len(flatten(ret.region_values)) <= args.grid_size * args.grid_size

\* The same for the odd window sizes alone.
C6_OddWindowAtMostSizeSquared ==
    (Returned("get_region_spei_values") /\ args.grid_size % 2 = 1) =>
        Len(flatten(ret.region_values)) <= args.grid_size * args.grid_size

\* The sampling cannot be carried out: an axis is empty or a coordinate of the
\* centre is no number.
SamplingFails ==
    \/ Len(args.spei_data.lat) = 0
    \/ Len(args.spei_data.lon) = 0
    \/ args.lat = NotANumber
    \/ args.lon = NotANumber

\* C7: no exception of the sampling reaches the caller; when the grid is empty
\* or the nearest-coordinate lookup fails the result is the empty sequence.
C7_NoErrorReachesCaller ==
    Returned("get_region_spei_values") =>
        /\ ret.raised = "none"
        /\ SamplingFails => ret.value = <<>>

C7_Witness ==
    /\ Returned("get_region_spei_values")
    /\ Len(args.spei_data.lat) = 0
    /\ args.lon # NotANumber
    /\ ret.raised = "none"
    /\ ret.value = <<>>

\* The non-missing cells of a slice, by row and column.
ValidCells(d) ==
    {c \in (1..Len(d.lat)) \X (1..Len(d.lon)) : ~isnan(d.values[c[1]][c[2]])}

\* The cells of the slice that the k-th triple of the result describes.
SourceCells(d, r, k) ==
    {c \in ValidCells(d) :
        /\ r.lats[k] = d.lat[c[1]]
        /\ r.lons[k] = d.lon[c[2]]
        /\ r.spei[k] = d.values[c[1]][c[2]]}

\* C9: the three sequences have the length of the number of non-missing
\* cells; every triple is the latitude, longitude and value of one
\* non-missing cell, every non-missing cell has exactly one triple, no value
\* is missing, and the triples follow the rows (latitudes) and, within a row,
\* the columns (longitudes).
C9_FlattenExact ==
    Returned("prepare_mapbox_data") =>
        LET d == args.spei_region_data
            n == Len(ret.spei)
        IN  /\ Len(ret.lats) = n
            /\ Len(ret.lons) = n
            /\ n = Cardinality(ValidCells(d))
            /\ \A k \in 1..n :
                /\ ~isnan(ret.spei[k])
                /\ Cardinality(SourceCells(d, ret, k)) = 1
            /\ \A c \in ValidCells(d) :
                Cardinality({k \in 1..n : c \in SourceCells(d, ret, k)}) = 1
            /\ \A k \in 1..n, l \in 1..n :
                k < l =>
                    \A c \in SourceCells(d, ret, k), e \in SourceCells(d, ret, l) :
                        \/ c[1] < e[1]
                        \/ c[1] = e[1] /\ c[2] < e[2]

C9_Witness ==
    /\ Returned("prepare_mapbox_data")
    /\ Len(args.spei_region_data.lat) = 2
    /\ Len(args.spei_region_data.lon) = 2
    /\ isnan(args.spei_region_data.values[1][2])
    /\ Len(ret.spei) = 3
    /\ ret.lats = <<args.spei_region_data.lat[1], args.spei_region_data.lat[2],
                    args.spei_region_data.lat[2]>>

(***************************************************************************)
(* Claims about the temporal locator (SpecTime).                           *)
(***************************************************************************)
\* The distance in time of the k-th timestamp (from 1) to the target.
TimeDistance(k) == Abs(args.time_values[k] - args.target_date)

\* C10: the index returned is that of a timestamp of minimum absolute time
\* difference to the target, differences of a fraction of a day included, and
\* the lowest such index.
C10_NearestTimestamp ==
    Returned("find_nearest_time_index") =>
        LET i == ret.index + 1
        IN  /\ i \in DOMAIN args.time_values
            /\ \A k \in DOMAIN args.time_values :
                    TimeDistance(i) <= TimeDistance(k)
            /\ \A k \in DOMAIN args.time_values :
                    k < i => TimeDistance(i) < TimeDistance(k)

\* The same when every timestamp and the target fall on whole days; days 16,
\* 47 and 76 of a year with the target on day 32 give index 1.
C10_NearestOnWholeDays ==
    /\ find_nearest_time_index(<<16 * TicksPerDay, 47 * TicksPerDay,
                                 76 * TicksPerDay>>, 32 * TicksPerDay) = 1
    /\ (/\ Returned("find_nearest_time_index")
        /\ args.target_date % TicksPerDay = 0
        /\ \A k \in DOMAIN args.time_values :
                args.time_values[k] % TicksPerDay = 0) =>
            LET i == ret.index + 1
            IN  /\ \A k \in DOMAIN args.time_values :
                        TimeDistance(i) <= TimeDistance(k)
                /\ \A k \in DOMAIN args.time_values :
                        k < i => TimeDistance(i) < TimeDistance(k)

(***************************************************************************)
(* Claims about the category counts (SpecCount).                           *)
(***************************************************************************)
RECURSIVE SumUpTo(_, _)
SumUpTo(f, k) == IF k < 0 THEN 0 ELSE f[k] + SumUpTo(f, k - 1)

\* The categories whose test the i-th cell passes.
CountedIn(i) ==
    {k \in Categories : thresholds(k, args.spei_values[i])}

\* C11: in a region with a non-missing cell the seven category counts sum to
\* the number of non-missing cells: a non-missing value passes the test of
\* exactly one category, a missing one of none; so the percentages
\* count / total * 100 sum to 100 (here: the counts times 100 sum to 100 times
\* the total).
C11_CountsSumToValid ==
    (Returned("category_columns") /\ ret.total_points > 0) =>
        /\ ret.total_points =
                Cardinality({i \in DOMAIN args.spei_values :
                                ~isnan(args.spei_values[i])})
        /\ SumUpTo(ret.cat_count, 6) = ret.total_points
        /\ SumUpTo([k \in Categories |-> 100 * ret.cat_count[k]], 6)
                = 100 * ret.total_points
        /\ \A i \in DOMAIN args.spei_values :
                Cardinality(CountedIn(i)) =
                    IF isnan(args.spei_values[i]) THEN 0 ELSE 1

C11_Witness ==
    /\ Returned("category_columns")
    /\ args.spei_values = <<1, NaN, 2>>
    /\ ret.total_points = 2
    /\ ret.cat_count[4] = 1
    /\ ret.cat_count[5] = 1

(***************************************************************************)
(* Claims about the continental view (SpecRender).                         *)
(***************************************************************************)
\* The threshold table of the specification for the mean total / n of n
\* values, in units of 0.5.
TableCategoryOfMean(total, n) ==
    CASE total < -4 * n -> 0
      [] -4 * n <= total /\ total < -3 * n -> 1
      [] -3 * n <= total /\ total < -2 * n -> 2
      [] -2 * n <= total /\ total < -1 * n -> 3
      [] -1 * n <= total /\ total <= 1 * n -> 4
      [] 1 * n < total /\ total <= 3 * n -> 5
      [] total > 3 * n -> 6

\* The category of the mean of all non-missing cells of the region.
RegionalCategory(spei_cont) ==
    LET valid == {c \in (1..Len(spei_cont.lat)) \X (1..Len(spei_cont.lon)) :
                    ~isnan(spei_cont.values[c[1]][c[2]])}
        cells == flatten(spei_cont.values)
        total == Sum([k \in DOMAIN cells |->
                        IF isnan(cells[k]) THEN 0 ELSE cells[k]])
    IN  TableCategoryOfMean(total, Cardinality(valid))

\* The sample around the centroid of the k-th country of the query; empty
\* when the country has no centroid.
SampleOf(q, k) ==
    LET centroid == q.country_centroids[q.continent_data.countries[k]]
    IN  IF centroid = NoCentroid THEN <<>>
        ELSE get_region_spei_values(
                q.spei_cont, centroid[1], centroid[2],
                IF q.continent_name = "Australia"
                THEN StateGridSize ELSE CountryGridSize).value

\* A pass over a region with a non-missing cell has run.
Rendered == Returned("render_continental_view") /\ ~ret.warning

\* C12: a country without a centroid, or with an empty sample, gets the
\* category of the mean of the whole region, and no error is raised; a country
\* with a non-empty sample is categorized from its sample (its average in
\* Australia, its dominant category elsewhere), not by the fallback.
C12_RegionalFallback ==
    Rendered =>
        /\ ret.raised = "none"
        /\ \A k \in DOMAIN args.query.continent_data.countries :
            LET a == ret.assigned[k]
                sample == SampleOf(args.query, k)
            IN  /\ a.country = args.query.continent_data.countries[k]
                /\ sample = <<>> =>
                    /\ a.branch \in {"no centroid", "no valid data"}
                    /\ a.category = RegionalCategory(args.query.spei_cont)
                /\ sample # <<>> =>
                    /\ a.branch \in {"average", "dominant"}
                    /\ a.branch = "average" <=>
                            args.query.continent_name = "Australia"
                    /\ a.branch = "average" =>
                            a.category =
                                TableCategoryOfMean(Sum(sample), Len(sample))
                    /\ a.branch = "dominant" =>
                            a.category =
                                DominantCategory(sample).dominant_category

\* Both fallbacks and a sample in one pass: a country with no centroid, one
\* with only missing cells around its centroid, and the region's mean is not
\* Normal.
C12_Witness ==
    /\ Rendered
    /\ \E k, l \in DOMAIN ret.assigned :
        /\ ret.assigned[k].branch = "no centroid"
        /\ ret.assigned[l].branch = "no valid data"
        /\ ret.assigned[k].category = 6
        /\ ret.assigned[l].category = 6

\* How often a country is listed in the tally, all categories together.
RECURSIVE Listed(_, _, _)
Listed(country_categories, country, k) ==
    IF k < 0 THEN 0
    ELSE Cardinality({i \in DOMAIN country_categories[k] :
                        country_categories[k][i] = country})
            + Listed(country_categories, country, k - 1)

\* C14: after any sequence of queries the tally of the latest pass has the
\* keys 0..6, lists every country of the continent exactly once and lists
\* nothing else, whatever the tally of the pass before held.
C14_TallyFreshPerQuery ==
    Rendered =>
        LET countries == {args.query.continent_data.countries[k] :
                            k \in DOMAIN args.query.continent_data.countries}
        IN  /\ DOMAIN ret.country_categories = Categories
            /\ \A c \in countries : Listed(ret.country_categories, c, 6) = 1
            /\ \A k \in Categories :
                \A i \in DOMAIN ret.country_categories[k] :
                    ret.country_categories[k][i] \in countries

\* A pass over Africa after a pass over Australia had listed its states.
C14_Witness ==
    /\ Rendered
    /\ args.query.continent_name = "Africa"
    /\ \E k \in Categories : 1 \in Range(args.shown[k])
    /\ \E k \in Categories : MaxCountries + 1 \in Range(ret.country_categories[k])

(***************************************************************************)
(* Claims about the sampling window (SpecGrid).                            *)
(***************************************************************************)
\* The index (from 0) of the coordinate nearest to x, the lowest one among
\* equally near coordinates.
NearestLowest(axis, x) ==
    CHOOSE i \in 0..(Len(axis) - 1) :
        /\ \A k \in 0..(Len(axis) - 1) :
                Abs(axis[i + 1] - x) <= Abs(axis[k + 1] - x)
        /\ \A k \in 0..(i - 1) : Abs(axis[i + 1] - x) < Abs(axis[k + 1] - x)

\* The indices (from 0) of the window on an axis: idx - half .. idx + half,
\* cut at 0 and at length - 1.
WindowIndices(axis, x, window_size) ==
    LET idx == NearestLowest(axis, x)
        half == window_size \div 2
    IN  {i \in 0..(Len(axis) - 1) : idx - half <= i /\ i <= idx + half}

\* The cells of a grid with their row in rows and their column in cols, as a
\* matrix in the order of the grid.
CellsAt(grid, rows, cols) ==
    [r \in 1..Cardinality(rows) |-> [c \in 1..Cardinality(cols) |->
        grid.values[Ascending(rows)[r] + 1][Ascending(cols)[c] + 1]]]

\* C13: the window is made of exactly the cells whose row and column index
\* lie within half = window_size // 2 of the index of the nearest coordinate
\* (the lowest index among equally near ones) and inside the grid: near an
\* edge it is cut on that side and keeps its other side where it was.
C13_WindowExact ==
    (Returned("get_region_spei_values") /\ ~SamplingFails) =>
        LET rows == WindowIndices(args.spei_data.lat, args.lat, args.grid_size)
            cols == WindowIndices(args.spei_data.lon, args.lon, args.grid_size)
        IN  ret.region_values = CellsAt(args.spei_data, rows, cols)

\* A centre halfway between the first two latitudes and a window of 3: the
\* first latitude is the nearest and the window has the first two rows.
C13_Witness ==
    /\ Returned("get_region_spei_values")
    /\ ~SamplingFails
    /\ args.spei_data.lat = <<0, 2, 4>>
    /\ Len(args.spei_data.lon) = 2
    /\ args.lat = 1
    /\ args.grid_size = 3
    /\ args.spei_data.values[2][1] = 3
    /\ Len(ret.region_values) = 2
    /\ ret.region_values[2][1] = 3

(***************************************************************************)
(* Claims about the colours (SpecClassify).                                *)
(***************************************************************************)
\* C15: the colour of a map point with a non-missing value is the colour of
\* the value's severity category in SPEI_CATEGORIES, and so one of the
\* colours of the legend.
C15_ColorOfCategory ==
    (Returned("spei_to_color") /\ ~isnan(args.spei_val)) =>
        /\ ret.color = SPEI_CATEGORIES[categorize_spei(args.spei_val) + 1].color
        /\ ret.color \in {legend_data[k].color : k \in DOMAIN legend_data}

\* The same for the values below 0.5.
C15_ColorOfCategoryBelowHalf ==
    (Returned("spei_to_color") /\ ~isnan(args.spei_val) /\ args.spei_val < 1) =>
        /\ ret.color = SPEI_CATEGORIES[categorize_spei(args.spei_val) + 1].color
        /\ ret.color \in {legend_data[k].color : k \in DOMAIN legend_data}

=============================================================================
